---- MODULE Spec2Model ----
(***************************************************************************)
(* The arrival-estimation pipeline of SubwaySign: MTAApi._parse_response   *)
(* (src/mta_api.py), which turns the raw arrivals of the MTA feed into one *)
(* MTATrainEstimate per requested line.                                    *)
(*                                                                         *)
(* The loop over the raw arrivals is modelled one iteration per step, so   *)
(* that the wall clock (read by _get_arrival_minutes in every iteration)   *)
(* can advance between two iterations.  Times are in milliseconds.         *)
(*                                                                         *)
(* Two callers and helpers surround the pipeline: the page loop of         *)
(* led_display.main, which calls get_times and shows one line per page,    *)
(* and is_sleep_time_test (src/test_sleep.py), the sleep schedule.         *)
(***************************************************************************)
EXTENDS Integers, Sequences, FiniteSets, TLC

VARIABLES
    requested_lines, \* argument of _parse_response: the requested line codes
    arrivals,        \* data['data']['entry']['arrivalsAndDepartures']
    idx,             \* number of items of arrivals the for loop has consumed
    pc,              \* "parse", "estimate", "done" or "raised"
    clock,           \* the instant at this moment (ms since the epoch)
    zone,            \* the local time zone: the instant at which its UTC
                     \* offset changes and by how much (ms)
    trips_data,      \* the dict trips_data, in insertion order
    line_data,       \* the dict line_data: route -> {uptown, downtown}
    estimates,       \* the returned list of MTATrainEstimate
    trace,           \* the locals of every finished loop iteration, in order
    \* is_sleep_time_test (src/test_sleep.py)
    current_hour,    \* argument current_hour
    sleep_start_hour,\* argument sleep_start_hour
    wake_hour,       \* argument wake_hour
    sleeping,        \* the returned value, None before the call
    \* the continuous loop of main (src/led_display.py)
    main_estimates,  \* main's local estimates: the last list get_times returned
    current_page,    \* main's local current_page
    displayed,       \* the line of the estimate last given to display_estimate
                     \* (line 192), None before the first page
    page_used,       \* current_page at line 191 of the last display
    page_count,      \* len(valid_estimates) at line 191 of the last display
    outcome,         \* how the last loop iteration ended
    refreshed,       \* whether the last loop iteration ran line 171-172
    window_same,     \* history: no refresh changed the lines with data since
                     \* the last display
    all_same         \* history: every refresh so far returned the same lines
                     \* with data

pipeline_vars == <<requested_lines, arrivals, idx, pc, clock, zone,
                   trips_data, line_data, estimates, trace>>

sleep_vars == <<current_hour, sleep_start_hour, wake_hour, sleeping>>

display_vars == <<main_estimates, current_page, displayed, page_used,
                  page_count, outcome, refreshed, window_same, all_same>>

vars == <<pipeline_vars, sleep_vars, display_vars>>

-----------------------------------------------------------------------------
(* Bounds of the model *)

MaxItems == 2
MaxTicks == 1
MaxTrains == 5
MaxMinute == 11

-----------------------------------------------------------------------------
(* Python values.  A JSON object field is absent (no such key), null       *)
(* (None), a number, or a string.  An integer too large for the arithmetic *)
(* of the model is kept by what datetime.fromtimestamp does with it.       *)

Absent == [tag |-> "absent"]
PyNone == [tag |-> "None"]
PyInt(n) == [tag |-> "int", val |-> n]
PyBool(b) == [tag |-> "bool", val |-> b]
PyStr(s) == [tag |-> "str", val |-> s]

\* a positive integer of milliseconds past the year 9999 (fromtimestamp
\* raises ValueError), e.g. 10**18
PyIntPastYear9999 == [tag |-> "bigint", raises |-> "ValueError"]
\* one past the platform's time_t (fromtimestamp raises OverflowError), e.g.
\* 10**25
PyIntPastTimeT == [tag |-> "bigint", raises |-> "OverflowError"]

\* what a call gives when it raises instead of returning
Raised == [tag |-> "raised"]

\* bool(v): None, 0, False and '' are falsy
Truthy(v) ==
    CASE v.tag = "int" -> v.val # 0
      [] v.tag = "bool" -> v.val
      [] v.tag = "str" -> v.val # ""
      [] v.tag = "bigint" -> TRUE
      [] OTHER -> FALSE

IsNum(v) == v.tag \in {"int", "bool"}
Num(v) == IF v.tag = "bool" THEN (IF v.val THEN 1 ELSE 0) ELSE v.val

\* a == b: True == 1 and False == 0, None equals only None
PyEq(a, b) == IF IsNum(a) /\ IsNum(b) THEN Num(a) = Num(b) ELSE a = b

\* item.get(k, default)
DictGet(item, k, default) == IF item[k].tag = "absent" THEN default ELSE item[k]

Max(a, b) == IF a >= b THEN a ELSE b

\* int(x / d) for d > 0: truncation toward zero
TruncDiv(x, d) == IF x >= 0 THEN x \div d ELSE -((-x) \div d)

-----------------------------------------------------------------------------
(* Strings that the code inspects character by character (the headsign)    *)
(* are sequences of one-character strings.                                 *)

UpperCase == <<"A","B","C","D","E","F","G","H","I","J","K","L","M",
               "N","O","P","Q","R","S","T","U","V","W","X","Y","Z">>
LowerCase == <<"a","b","c","d","e","f","g","h","i","j","k","l","m",
               "n","o","p","q","r","s","t","u","v","w","x","y","z">>

\* the capitals of Latin-1 beyond ASCII and their lower case
UpperLatin1 == <<"À","Á","Â","Ã","Ä","Å","Æ","Ç","È","É","Ê","Ë","Ì","Í","Î",
                 "Ï","Ð","Ñ","Ò","Ó","Ô","Õ","Ö","Ø","Ù","Ú","Û","Ü","Ý","Þ">>
LowerLatin1 == <<"à","á","â","ã","ä","å","æ","ç","è","é","ê","ë","ì","í","î",
                 "ï","ð","ñ","ò","ó","ô","õ","ö","ø","ù","ú","û","ü","ý","þ">>

UpperToLower ==
    LET upper == UpperCase \o UpperLatin1
        lower == LowerCase \o LowerLatin1
    IN  [c \in { upper[i] : i \in 1..Len(upper) } |->
            lower[CHOOSE i \in 1..Len(upper) : upper[i] = c]]

\* the lower case of one character of ASCII or Latin-1
LowerChar(c) == IF c \in DOMAIN UpperToLower THEN UpperToLower[c] ELSE c

\* str.lower(), for text of ASCII and Latin-1 characters (beyond Latin-1
\* str.lower() follows the Unicode tables, and may change the length)
Lower(s) == [i \in 1..Len(s) |-> LowerChar(s[i])]

\* sub in s
Contains(sub, s) ==
    \E i \in 0..(Len(s) - Len(sub)) : SubSeq(s, i + 1, i + Len(sub)) = sub

Uptown == <<"u","p","t","o","w","n">>
North == <<"n","o","r","t","h">>
Downtown == <<"d","o","w","n","t","o","w","n">>
South == <<"s","o","u","t","h">>

-----------------------------------------------------------------------------
(* MTAApi *)

STOP_FILTERS ==
    [r \in {"F", "M", "R", "W", "1", "C", "E", "6"} |->
        CASE r \in {"F", "M"} -> [uptown |-> "MTASBWY_D18N", downtown |-> "MTASBWY_D18S"]
          [] r \in {"R", "W"} -> [uptown |-> "MTASBWY_R19N", downtown |-> "MTASBWY_R19S"]
          [] r = "1" -> [uptown |-> "MTASBWY_130N", downtown |-> "MTASBWY_130S"]
          [] r \in {"C", "E"} -> [uptown |-> "MTASBWY_A30N", downtown |-> "MTASBWY_A30S"]
          [] r = "6" -> [uptown |-> "MTASBWY_634N", downtown |-> "MTASBWY_634S"]]

\* item.get('tripHeadsign', '').lower() raises AttributeError when the field
\* is null: None has no method lower
DirectionRaises(item) == DictGet(item, "tripHeadsign", PyStr(<<>>)).tag # "str"

\* GetDirection without the .lower() of line 206
GetDirectionCaseSensitive(item) ==
    LET direction == DictGet(item, "tripHeadsign", PyStr(<<>>)).val
    IN  IF DirectionRaises(item) THEN Raised
        ELSE IF Contains(Uptown, direction) \/ Contains(North, direction)
        THEN PyStr("uptown")
        ELSE IF Contains(Downtown, direction) \/ Contains(South, direction)
             THEN PyStr("downtown")
             ELSE PyNone

\* _get_direction: 'uptown', 'downtown' or None
GetDirection(item) ==
    LET direction == Lower(DictGet(item, "tripHeadsign", PyStr(<<>>)).val)
    IN  IF DirectionRaises(item) THEN Raised
        ELSE IF Contains(Uptown, direction) \/ Contains(North, direction)
        THEN PyStr("uptown")
        ELSE IF Contains(Downtown, direction) \/ Contains(South, direction)
             THEN PyStr("downtown")
             ELSE PyNone

\* what the try block of _get_arrival_minutes leaves when a TypeError ends it
TypeError == [tag |-> "TypeError"]

\* v > 0 for a number v
Positive(v) == IF v.tag = "bigint" THEN TRUE ELSE Num(v) > 0

\* GetArrivalMs with the precedence inverted: the scheduled instant whenever
\* there is one
GetArrivalMsScheduledFirst(item) ==
    LET predicted_ms == DictGet(item, "predictedArrivalTime", PyNone)
        scheduled_ms == DictGet(item, "scheduledArrivalTime", PyNone)
    IN  IF Truthy(scheduled_ms) THEN scheduled_ms ELSE predicted_ms

\* _get_arrival_minutes, lines 219-228: the value the minutes are taken
\* from; a predicted time that is a non-empty text makes "predicted_ms > 0"
\* raise TypeError
GetArrivalMs(item) ==
    LET predicted_ms == DictGet(item, "predictedArrivalTime", PyNone)
        scheduled_ms == DictGet(item, "scheduledArrivalTime", PyNone)
    IN  IF Truthy(predicted_ms) /\ predicted_ms.tag = "str"
        THEN TypeError
        ELSE IF Truthy(predicted_ms) /\ Positive(predicted_ms)
             THEN predicted_ms
             ELSE scheduled_ms

\* the naive local time datetime.fromtimestamp(t / 1000) and, at instant t,
\* datetime.now() give on a host in the zone tz, in ms and up to the offset
\* of tz before its change
LocalMs(t, tz) == t + (IF t >= tz.change_at THEN tz.shift ELSE 0)

\* MinutesFromNow without the max(0, ...) of line 241
MinutesFromNowUnclamped(arrival_ms, now, tz) ==
    TruncDiv(LocalMs(arrival_ms, tz) - LocalMs(now, tz), 60000)

\* _get_arrival_minutes, lines 233-241: the minutes between the naive local
\* times of the arrival and of now, truncated toward zero and clamped
MinutesFromNow(arrival_ms, now, tz) ==
    Max(0, TruncDiv(LocalMs(arrival_ms, tz) - LocalMs(now, tz), 60000))

\* _get_arrival_minutes; now is the instant of the call, tz the zone of the
\* host.  None for no time
\* (line 231) and for the TypeError or ValueError caught at line 243: a time
\* that is a text, or past the year 9999.  Past the platform's time_t line
\* 234 raises OverflowError, which line 243 does not catch.
GetArrivalMinutes(item, now, tz) ==
    LET arrival_ms == GetArrivalMs(item)
    IN  IF arrival_ms = PyIntPastTimeT
        THEN Raised
        ELSE IF arrival_ms = TypeError
             THEN PyNone
             ELSE IF ~Truthy(arrival_ms) \/ arrival_ms.tag \in {"str", "bigint"}
             THEN PyNone
             ELSE PyInt(MinutesFromNow(Num(arrival_ms), now, tz))

\* lines 130-131: predicted_ms and predicted_ms > 0
HasPrediction(item) ==
    LET predicted_ms == DictGet(item, "predictedArrivalTime", PyNone)
    IN  IF Truthy(predicted_ms) THEN PyBool(Positive(predicted_ms)) ELSE predicted_ms

\* TripKey without the trip: one key per line and direction
TripKeyWithoutTrip(route_name, direction, trip_id) ==
    route_name \o "_" \o direction

\* line 127: f"{route_name}_{direction}_{trip_id}"
TripKey(route_name, direction, trip_id) ==
    route_name \o "_" \o direction \o "_" \o trip_id

InList(v, lst) == v.tag = "str" /\ \E i \in 1..Len(lst) : lst[i] = v.val

\* The locals of one iteration of the loop of lines 94-151 at its end;
\* stage names the statement that ended it.  A local the iteration never
\* assigned is None.
Locals(stage, route_name, direction, arrival_ms, now, arrival_minutes, trip_id, has_prediction) ==
    [stage |-> stage, route_name |-> route_name, direction |-> direction,
     arrival_ms |-> arrival_ms, now |-> now, arrival_minutes |-> arrival_minutes,
     trip_id |-> trip_id, has_prediction |-> has_prediction]

Iteration(item, requested, now, tz) ==
    LET route_name == DictGet(item, "routeShortName", PyStr(""))
        stop_id == DictGet(item, "stopId", PyStr(""))
        direction == GetDirection(item)
        arrival_ms == GetArrivalMs(item)
        arrival_minutes == GetArrivalMinutes(item, now, tz)
        trip_id == DictGet(item, "tripId", PyStr(""))
        has_prediction == HasPrediction(item)
    IN  IF ~InList(route_name, requested)
        THEN Locals("line", route_name, PyNone, PyNone, PyNone, PyNone, PyNone, PyNone)
        ELSE IF DirectionRaises(item)
        THEN Locals("raise", route_name, PyNone, PyNone, PyNone, PyNone, PyNone, PyNone)
        ELSE IF direction = PyNone
        THEN Locals("direction", route_name, direction, PyNone, PyNone, PyNone, PyNone, PyNone)
        ELSE IF /\ route_name.val \in DOMAIN STOP_FILTERS
                /\ stop_id # PyStr(STOP_FILTERS[route_name.val][direction.val])
        THEN Locals("stop", route_name, direction, PyNone, PyNone, PyNone, PyNone, PyNone)
        ELSE IF arrival_minutes = Raised
        THEN Locals("raise", route_name, direction, arrival_ms, PyNone, PyNone, PyNone, PyNone)
        ELSE IF arrival_minutes = PyNone
        THEN Locals("time", route_name, direction, arrival_ms, PyNone, arrival_minutes, PyNone, PyNone)
        ELSE IF ~Truthy(trip_id)
        THEN Locals("trip", route_name, direction, arrival_ms, PyInt(now), arrival_minutes, trip_id, PyNone)
        ELSE Locals("kept", route_name, direction, arrival_ms, PyInt(now), arrival_minutes, trip_id, has_prediction)

\* ShouldReplace without the precedence of predicted records: the earlier
\* time always wins
ShouldReplaceEarliest(has_prediction, arrival_minutes, existing) ==
    arrival_minutes < existing.minutes

\* lines 144-145: whether the new record replaces the one stored for its key
ShouldReplace(has_prediction, arrival_minutes, existing) ==
    \/ Truthy(has_prediction) /\ ~Truthy(existing.has_prediction)
    \/ PyEq(has_prediction, existing.has_prediction) /\ arrival_minutes < existing.minutes

TripInfo(key, l) ==
    [key |-> key, route |-> l.route_name.val, direction |-> l.direction.val,
     minutes |-> l.arrival_minutes.val, has_prediction |-> l.has_prediction]

\* lines 126-151: trips_data after the iteration with locals l stored its record
Store(td, l) ==
    LET key == TripKey(l.route_name.val, l.direction.val, l.trip_id.val)
        new == TripInfo(key, l)
    IN  IF \A i \in 1..Len(td) : td[i].key # key
        THEN Append(td, new)
        ELSE LET i == CHOOSE j \in 1..Len(td) : td[j].key = key
             IN  IF ShouldReplace(l.has_prediction, l.arrival_minutes.val, td[i])
                 THEN [td EXCEPT ![i] = new]
                 ELSE td

\* lines 126-151 run for the normalized records ls in turn, from trips_data td
RECURSIVE StoreAll(_, _)
StoreAll(ls, td) ==
    IF ls = <<>> THEN td ELSE StoreAll(Tail(ls), Store(td, Head(ls)))

\* lines 155-164: line_data built from trips_data.values()
RECURSIVE GroupByLine(_, _)
GroupByLine(td, ld) ==
    IF td = <<>> THEN ld
    ELSE LET trip_info == Head(td)
             route == trip_info.route
             base == IF route \in DOMAIN ld
                     THEN ld
                     ELSE (route :> [uptown |-> <<>>, downtown |-> <<>>]) @@ ld
             grown == [base EXCEPT ![route][trip_info.direction] =
                                        Append(@, trip_info.minutes)]
         IN  GroupByLine(Tail(td), grown)

\* sorted(xs)
RECURSIVE Insert(_, _)
Insert(x, s) ==
    IF s = <<>> THEN <<x>>
    ELSE IF x < Head(s) THEN <<x>> \o s
    ELSE <<Head(s)>> \o Insert(x, Tail(s))

RECURSIVE Sorted(_)
Sorted(xs) == IF xs = <<>> THEN <<>> ELSE Insert(xs[Len(xs)], Sorted(SubSeq(xs, 1, Len(xs) - 1)))

\* the three literals of filter_useful_times
MIN_USEFUL_MINUTES == 1
MERGE_THRESHOLD == 2
MAX_TIMES == 3

Abs(x) == IF x >= 0 THEN x ELSE -x

\* MergeClose comparing each time with the one before it in useful_times,
\* kept or not
MergeCloseLastSeen(useful_times, deduplicated) ==
    LET kept == { i \in 1..Len(useful_times) :
                    i = 1 \/ Abs(useful_times[i] - useful_times[i - 1]) >= MERGE_THRESHOLD }
        RECURSIVE Pick(_)
        Pick(i) == IF i > Len(useful_times) THEN <<>>
                   ELSE (IF i \in kept THEN <<useful_times[i]>> ELSE <<>>) \o Pick(i + 1)
    IN  deduplicated \o Pick(1)

\* lines 187-190: the loop that builds deduplicated from useful_times
RECURSIVE MergeClose(_, _)
MergeClose(useful_times, deduplicated) ==
    IF useful_times = <<>> THEN deduplicated
    ELSE LET time == Head(useful_times)
         IN  MergeClose(Tail(useful_times),
                IF deduplicated = <<>>
                   \/ Abs(time - deduplicated[Len(deduplicated)]) >= MERGE_THRESHOLD
                THEN Append(deduplicated, time)
                ELSE deduplicated)

\* Take with the slice one too long
TakeOneMore(xs, n) == SubSeq(xs, 1, IF Len(xs) < n + 1 THEN Len(xs) ELSE n + 1)

\* xs[:n]
Take(xs, n) == SubSeq(xs, 1, IF Len(xs) < n THEN Len(xs) ELSE n)

\* filter_useful_times without the fallback of lines 183-184
filter_without_fallback(times_list) ==
    Take(MergeClose(SelectSeq(times_list, LAMBDA t : t >= MIN_USEFUL_MINUTES), <<>>),
         MAX_TIMES)

\* lines 175-192
filter_useful_times(times_list) ==
    IF times_list = <<>> THEN <<>>
    ELSE LET useful_times == SelectSeq(times_list, LAMBDA t : t >= MIN_USEFUL_MINUTES)
         IN  IF useful_times = <<>>
             THEN <<times_list[1]>>
             ELSE Take(MergeClose(useful_times, <<>>), MAX_TIMES)

\* MTATrainEstimate.__init__; no times (None) and [] both give []
MTATrainEstimate(line, uptown_times, downtown_times) ==
    [line |-> line,
     uptown |-> IF uptown_times # <<>> THEN uptown_times ELSE <<>>,
     downtown |-> IF downtown_times # <<>> THEN downtown_times ELSE <<>>]

\* lines 167-200: the estimate of one requested line
EstimateFor(line, ld) ==
    IF line \in DOMAIN ld
    THEN MTATrainEstimate(line,
                          filter_useful_times(Sorted(ld[line].uptown)),
                          filter_useful_times(Sorted(ld[line].downtown)))
    ELSE MTATrainEstimate(line, <<>>, <<>>)

\* Estimates that leaves out the requested lines without data
EstimatesWithDataOnly(requested, ld) ==
    LET present == SelectSeq(requested, LAMBDA line : line \in DOMAIN ld)
    IN  [i \in 1..Len(present) |-> EstimateFor(present[i], ld)]

\* lines 167-202: the returned list, one estimate per requested line
Estimates(requested, ld) ==
    [i \in 1..Len(requested) |-> EstimateFor(requested[i], ld)]

\* how a call ends: it returns value, or an exception leaves it
Return(value) == [raised |-> FALSE, value |-> value]
Raise == [raised |-> TRUE, value |-> <<>>]

\* the loop of lines 94-151 run over items, item i read at instant nows[i]:
\* it ends with trips_data, or the exception of an iteration leaves it
RECURSIVE ParseAll(_, _, _, _, _)
ParseAll(items, nows, requested, td, tz) ==
    IF items = <<>> THEN Return(td)
    ELSE LET l == Iteration(Head(items), requested, Head(nows), tz)
         IN  IF l.stage = "raise" THEN Raise
             ELSE ParseAll(Tail(items), Tail(nows), requested,
                           IF l.stage = "kept" THEN Store(td, l) ELSE td, tz)

\* _parse_response, lines 85-202, as a whole
ParseResponse(items, nows, requested, tz) ==
    LET parsed == ParseAll(items, nows, requested, <<>>, tz)
    IN  IF parsed.raised THEN Raise
        ELSE Return(Estimates(requested, GroupByLine(parsed.value, <<>>)))

\* what requests.get and response.json of lines 76-78 give: the arrivals of
\* the feed, or a failure (no connection, an HTTP error status, no JSON)
Fetched(items) == [ok |-> TRUE, items |-> items]
FetchFailed == [ok |-> FALSE, items |-> <<>>]

\* get_times, lines 61-83, on a host in the zone tz: record i of the feed is
\* read at instant nows[i];
\* the Exception of line 83 stands for every failure of the fetch and every
\* exception of _parse_response
get_times(lines, fetch, nows, tz) ==
    IF fetch.ok THEN ParseResponse(fetch.items, nows, lines, tz) ELSE Raise

-----------------------------------------------------------------------------
(* src/led_display.py *)

\* display_estimate.get_next_train, lines 68-76: the minutes shown for one
\* direction, None when the direction is left out
get_next_train(times_list) ==
    IF times_list = <<>> THEN PyNone
    ELSE LET later == SelectSeq(times_list, LAMBDA time : time >= 2)
         IN  IF later # <<>> THEN PyInt(later[1]) ELSE PyInt(times_list[1])

\* est.uptown or est.downtown (lines 167, 176, 184)
HasData(est) == est.uptown # <<>> \/ est.downtown # <<>>

\* [est for est in estimates if est.uptown or est.downtown]
ValidEstimates(ests) == SelectSeq(ests, HasData)

\* lines 165-169: the line of the page that is up next, remembered before a
\* refresh; None when there is none
CurrentLine(ests, page) ==
    LET valid_estimates_before == ValidEstimates(ests)
    IN  IF ests # <<>> /\ valid_estimates_before # <<>>
           /\ page < Len(valid_estimates_before)
        THEN PyStr(valid_estimates_before[page + 1].line)
        ELSE PyNone

\* RestorePage that starts over at the first page after every refresh
RestorePageToFirst(current_line, ests, page) == 0

\* lines 174-180: current_page after a refresh, the index of the first valid
\* estimate of the remembered line, or unchanged when there is none
RestorePage(current_line, ests, page) ==
    LET valid_estimates_after == ValidEstimates(ests)
        found == { i \in 1..Len(valid_estimates_after) :
                     valid_estimates_after[i].line = current_line.val }
    IN  IF Truthy(current_line) /\ found # {}
        THEN (CHOOSE i \in found : \A j \in found : i <= j) - 1
        ELSE page

-----------------------------------------------------------------------------
(* src/test_sleep.py *)

\* is_sleep_time_test without the overnight branch of lines 12-14
is_sleep_time_same_day(hour, start, wake) == start <= hour /\ hour < wake

\* is_sleep_time_test, lines 6-14
is_sleep_time_test(hour, start, wake) ==
    IF start < wake
    THEN start <= hour /\ hour < wake
    ELSE hour >= start \/ hour < wake

-----------------------------------------------------------------------------
(* Inputs *)

Now0 == 10 * 60000
TickMs == 30 * 1000

Item(route, headsign, stop, trip, predicted, scheduled) ==
    [routeShortName |-> route, tripHeadsign |-> headsign, stopId |-> stop,
     tripId |-> trip, predictedArrivalTime |-> predicted,
     scheduledArrivalTime |-> scheduled]

HeadUptown == PyStr(<<"U","p","t","o","w","n">>)
HeadSouth == PyStr(<<"S","O","U","T","H">>)
HeadQueens == PyStr(<<"Q","u","e","e","n","s">>)

HeadDowntown == PyStr(<<"D","o","w","n","t","o","w","n">>)
HeadNorth == PyStr(<<"N","o","R","t","h">>)
HeadEmpty == PyStr(<<>>)
\* "Up town": the word town, none of the four tokens
HeadUpTown == PyStr(<<"U","p"," ","t","o","w","n">>)
\* "North-South": a token of each direction, the uptown one first
HeadNorthSouth == PyStr(<<"N","o","r","t","h","-","S","o","u","t","h">>)
\* "south UPTOWN": a token of each direction, the downtown one first
HeadSouthUptown == PyStr(<<"s","o","u","t","h"," ","U","P","T","O","W","N">>)

\* "École NORTH": an uptown token after a capital outside ASCII
HeadEcoleNorth == PyStr(<<"É","c","o","l","e"," ","N","O","R","T","H">>)

\* an instant s seconds after Now0
At(s) == PyInt(Now0 + s * 1000)

TripIds == {"T1", "T2"}

\* records of line F at the uptown platform: every pairing of a predicted
\* and a scheduled instant, for two trips
TimingItems ==
    { Item(PyStr("F"), HeadUptown, PyStr("MTASBWY_D18N"), PyStr(t), p, s) :
        t \in TripIds,
        p \in {Absent, PyInt(0), At(300)},
        s \in {Absent, At(180), At(60)} }

\* one record per other path through the loop body
OtherItems ==
    { Item(PyStr("F"), HeadSouth, PyStr("MTASBWY_D18S"), PyStr("T1"), At(120), At(60)),
      Item(PyStr("Q"), HeadUptown, PyStr("MTASBWY_R19N"), PyStr("T1"), PyNone, At(-30)),
      Item(PyStr("G"), HeadUptown, PyStr("MTASBWY_D18N"), PyStr("T1"), Absent, At(180)),
      Item(PyStr("F"), PyNone, PyStr("MTASBWY_D18N"), PyStr("T1"), Absent, At(180)),
      Item(PyStr("F"), Absent, PyStr("MTASBWY_D18N"), PyStr("T1"), Absent, At(180)),
      Item(PyStr("F"), HeadQueens, PyStr("MTASBWY_D18N"), PyStr("T1"), Absent, At(180)),
      Item(PyStr("F"), HeadUptown, PyStr("MTASBWY_D18S"), PyStr("T1"), Absent, At(180)),
      Item(PyStr("F"), HeadUptown, PyStr("MTASBWY_D18N"), Absent, Absent, At(180)),
      Item(PyStr("F"), HeadUptown, PyStr("MTASBWY_D18N"), PyStr(""), At(300), At(180)),
      Item(PyStr("F"), HeadUptown, PyStr("MTASBWY_D18N"), PyStr("T1"), At(-90), Absent),
      Item(PyStr("F"), HeadUptown, PyStr("MTASBWY_D18N"), PyStr("T1"), Absent, PyInt(0)) }

RawItems == TimingItems \cup OtherItems

RequestedChoices == { <<"F">>, <<"Q", "F", "Q">> }

SeqsUpTo(S, n) == UNION { [1..k -> S] : k \in 0..n }

\* the ascending lists of k minute counts in lo..MaxMinute
RECURSIVE Ascending(_, _)
Ascending(lo, k) ==
    IF k = 0 THEN { <<>> }
    ELSE UNION { { <<m>> \o s : s \in Ascending(m, k - 1) } : m \in lo..MaxMinute }

Reverse(s) == [i \in 1..Len(s) |-> s[Len(s) + 1 - i]]

\* a feed of line F with one record per train, all at one platform: train i
\* is scheduled ms[i] minutes after Now0 and has no prediction
TrainItems(ms, uptown) ==
    [i \in 1..Len(ms) |->
        Item(PyStr("F"),
             IF uptown THEN HeadUptown ELSE HeadSouth,
             PyStr(IF uptown THEN "MTASBWY_D18N" ELSE "MTASBWY_D18S"),
             PyStr("T" \o ToString(i)), Absent, At(ms[i] * 60))]

-----------------------------------------------------------------------------
(* The state machine *)

\* is_sleep_time_test not called: the defaults of its signature
SleepIdle ==
    /\ current_hour = 0
    /\ sleep_start_hour = 12
    /\ wake_hour = 6
    /\ sleeping = PyNone

\* main before its loop (lines 149-151), nothing shown yet
DisplayIdle ==
    /\ main_estimates = <<>>
    /\ current_page = 0
    /\ displayed = PyNone
    /\ page_used = 0
    /\ page_count = 0
    /\ outcome = "start"
    /\ refreshed = FALSE
    /\ window_same = TRUE
    /\ all_same = TRUE

\* a zone without a change of its UTC offset
NoZoneChange == [change_at |-> 0, shift |-> 0]

\* _parse_response called with requested_lines req on the arrivals arr, in
\* the time zone z
ParseStartIn(req, arr, z) ==
    /\ zone = z
    /\ requested_lines = req
    /\ arrivals = arr
    /\ idx = 0
    /\ pc = "parse"
    /\ clock = Now0
    /\ trips_data = <<>>
    /\ line_data = <<>>
    /\ estimates = <<>>
    /\ trace = <<>>

\* the same away from any change of the UTC offset
ParseStart(req, arr) == ParseStartIn(req, arr, NoZoneChange)

InitWith(req, arr) == ParseStart(req, arr) /\ SleepIdle /\ DisplayIdle

Init ==
    \E req \in RequestedChoices, arr \in SeqsUpTo(RawItems, MaxItems) :
        InitWith(req, arr)

\* one iteration of "for item in arrivals" (lines 94-151)
ParseItem ==
    /\ pc = "parse"
    /\ idx < Len(arrivals)
    /\ LET l == Iteration(arrivals[idx + 1], requested_lines, clock, zone)
       IN  /\ trace' = Append(trace, l)
           /\ pc' = IF l.stage = "raise" THEN "raised" ELSE "parse"
           /\ trips_data' = IF l.stage = "kept" THEN Store(trips_data, l) ELSE trips_data
    /\ idx' = idx + 1
    /\ UNCHANGED <<requested_lines, arrivals, clock, zone, line_data, estimates>>
    /\ UNCHANGED <<sleep_vars, display_vars>>

\* time passes while the loop runs; only the time between two reads of the
\* clock matters, so the clock moves between two iterations
Tick ==
    /\ pc = "parse"
    /\ 0 < idx
    /\ idx < Len(arrivals)
    /\ clock < Now0 + MaxTicks * TickMs
    /\ clock' = clock + TickMs
    /\ UNCHANGED <<requested_lines, arrivals, idx, pc, zone, trips_data,
                   line_data, estimates, trace>>
    /\ UNCHANGED <<sleep_vars, display_vars>>

\* the loop of lines 155-164
GroupTrips ==
    /\ pc = "parse"
    /\ idx = Len(arrivals)
    /\ line_data' = GroupByLine(trips_data, <<>>)
    /\ pc' = "estimate"
    /\ UNCHANGED <<requested_lines, arrivals, idx, clock, zone, trips_data,
                   estimates, trace>>
    /\ UNCHANGED <<sleep_vars, display_vars>>

\* the loop of lines 167-200 and the return
BuildEstimates ==
    /\ pc = "estimate"
    /\ estimates' = Estimates(requested_lines, line_data)
    /\ pc' = "done"
    /\ UNCHANGED <<requested_lines, arrivals, idx, clock, zone, trips_data,
                   line_data, trace>>
    /\ UNCHANGED <<sleep_vars, display_vars>>

Next == ParseItem \/ Tick \/ GroupTrips \/ BuildEstimates

Spec == Init /\ [][Next]_vars

HourMs == 60 * 60000

\* the zone of the host: its UTC offset stays as it is, or its clocks go
\* back or forward one hour 20 s after Now0
ZoneChoices ==
    { NoZoneChange,
      [change_at |-> Now0 + 20 * 1000, shift |-> -HourMs],
      [change_at |-> Now0 + 20 * 1000, shift |-> HourMs] }

\* records of line F at the uptown platform that differ in their times: a
\* scheduled instant in the past or ahead, a time that is a text, and an
\* integer that is no time of the calendar
InstantItems ==
    { Item(PyStr("F"), HeadUptown, PyStr("MTASBWY_D18N"), PyStr("T1"), Absent, At(s)) :
        s \in {-90, 150, 900, 2400} }
    \cup
    { Item(PyStr("F"), HeadUptown, PyStr("MTASBWY_D18N"), PyStr("T2"), p, At(180)) :
        p \in {PyStr("1700000000000"), PyStr(""), PyIntPastYear9999} }
    \cup
    { Item(PyStr("F"), HeadUptown, PyStr("MTASBWY_D18N"), PyStr("T2"), Absent, sch) :
        sch \in {PyStr("780000"), PyIntPastTimeT} }

\* Runs that differ in the times of the records and in the zone of the host
InitZone ==
    \E arr \in SeqsUpTo(InstantItems, MaxItems), z \in ZoneChoices :
        ParseStartIn(<<"F">>, arr, z) /\ SleepIdle /\ DisplayIdle

SpecZone == InitZone /\ [][Next]_vars

\* Runs on a busy platform, fast enough for the clock to stand still: up to
\* MaxTrains trains, the uptown ones listed by the feed soonest first and the
\* downtown ones latest first.
InitSelector ==
    \E k \in 0..MaxTrains :
        \E ms \in Ascending(0, k), uptown \in BOOLEAN :
            InitWith(<<"F", "R">>,
                     TrainItems(IF uptown THEN ms ELSE Reverse(ms), uptown))

NextSelector == ParseItem \/ GroupTrips \/ BuildEstimates

SpecSelector == InitSelector /\ [][NextSelector]_vars

\* the headsigns a record of the feed may carry: text with a token in any
\* case, with tokens of both directions, with none, no text at all
Headsigns ==
    { HeadUptown, HeadNorth, HeadDowntown, HeadSouth, HeadQueens, HeadUpTown,
      HeadEmpty, HeadNorthSouth, HeadSouthUptown, HeadEcoleNorth, Absent, PyNone }

\* records of line F at either platform of 23 St, one per headsign
DirectionItems ==
    { Item(PyStr("F"), h, PyStr(stop), PyStr("T1"), Absent, At(180)) :
        h \in Headsigns, stop \in {"MTASBWY_D18N", "MTASBWY_D18S"} }

\* Runs that differ in the headsigns of the records
InitDirection ==
    \E arr \in SeqsUpTo(DirectionItems, MaxItems) : InitWith(<<"F">>, arr)

NextDirection == ParseItem \/ GroupTrips \/ BuildEstimates

SpecDirection == InitDirection /\ [][NextDirection]_vars

\* the hours of the day
Hours == 0..23

\* Calls of is_sleep_time_test with every hour and every schedule
InitSleep ==
    /\ ParseStart(<<>>, <<>>)
    /\ DisplayIdle
    /\ current_hour \in Hours
    /\ sleep_start_hour \in Hours
    /\ wake_hour \in Hours
    /\ sleeping = PyNone

\* the call of line 33: is_sleep_time_test(hour, sleep_start_hour, wake_hour)
CallSleepTime ==
    /\ sleeping = PyNone
    /\ sleeping' = PyBool(is_sleep_time_test(current_hour, sleep_start_hour, wake_hour))
    /\ UNCHANGED <<current_hour, sleep_start_hour, wake_hour>>
    /\ UNCHANGED <<pipeline_vars, display_vars>>

NextSleep == CallSleepTime

SpecSleep == InitSleep /\ [][NextSleep]_vars

\* the lines main may be started with: three lines, or a line given twice
LineChoices == { <<"F", "R", "Q">>, <<"F", "R", "F">> }

LineStops == [F |-> "MTASBWY_D18N", R |-> "MTASBWY_R19N", Q |-> "MTASBWY_Q01N"]

\* a feed with one uptown train, 3 minutes away, for every line of running
FeedOf(running) ==
    LET names == SelectSeq(<<"F", "R", "Q">>, LAMBDA n : n \in running)
    IN  [i \in 1..Len(names) |->
            Item(PyStr(names[i]), HeadUptown, PyStr(LineStops[names[i]]),
                 PyStr("T" \o ToString(i)), Absent, At(180))]

Feeds == { FeedOf(running) : running \in SUBSET {"F", "R", "Q"} }

\* a feed whose first record has a null tripHeadsign, on which line 207 raises
FeedNullHeadsign ==
    <<Item(PyStr("F"), PyNone, PyStr("MTASBWY_D18N"), PyStr("T0"), Absent, At(180))>>
        \o FeedOf({"R"})

\* what a call of get_times may fetch
Fetches == { Fetched(feed) : feed \in Feeds \cup {FeedNullHeadsign} } \cup {FetchFailed}

\* the instants at which the loop of lines 94-151 reads the clock for the n
\* records of a feed: all at once, or TickMs apart
ClockReads(n) == { [i \in 1..n |-> Now0 + (i - 1) * delay] : delay \in {0, TickMs} }

\* the lines with data of a list of estimates, in order
ValidLines(ests) ==
    LET valid_estimates == ValidEstimates(ests)
    IN  [i \in 1..Len(valid_estimates) |-> valid_estimates[i].line]

\* main up to the while loop (lines 149-156), the first get_times having
\* returned; when it raises, the handler of line 228 ends main before the loop
InitDisplay ==
    \E lines \in LineChoices, fetch \in Fetches :
      \E nows \in ClockReads(Len(fetch.items)) :
        /\ ParseStart(lines, <<>>)
        /\ SleepIdle
        /\ ~get_times(lines, fetch, nows, NoZoneChange).raised
        /\ main_estimates = get_times(lines, fetch, nows, NoZoneChange).value
        /\ current_page = 0
        /\ displayed = PyNone
        /\ page_used = 0
        /\ page_count = 0
        /\ outcome = "start"
        /\ refreshed = FALSE
        /\ window_same = TRUE
        /\ all_same = TRUE

\* lines 182-217: the rest of an iteration once estimates and current_page
\* are settled for it; same tells whether the refresh of this iteration, if
\* any, left the lines with data as they were
ShowPage(ests, page, same) ==
    LET valid_estimates == ValidEstimates(ests)
        n == Len(valid_estimates)
        in_bounds == IF page >= n THEN 0 ELSE page
    IN  /\ main_estimates' = ests
        /\ window_same' = ((outcome = "shown" \/ window_same) /\ same)
        /\ all_same' = (all_same /\ same)
        /\ IF ests # <<>> /\ valid_estimates # <<>>
           THEN /\ displayed' = PyStr(valid_estimates[(in_bounds % n) + 1].line)
                /\ page_used' = in_bounds
                /\ page_count' = n
                /\ current_page' = (in_bounds + 1) % n
                /\ outcome' = "shown"
           ELSE /\ outcome' = IF ests # <<>> THEN "no_trains" ELSE "nothing"
                /\ current_page' = page
                /\ UNCHANGED <<displayed, page_used, page_count>>

\* an iteration of the while loop in which no refresh is due (line 163 false)
LoopShow ==
    /\ ShowPage(main_estimates, current_page, TRUE)
    /\ refreshed' = FALSE
    /\ UNCHANGED <<pipeline_vars, sleep_vars>>

\* an iteration in which a refresh is due and get_times returns (lines
\* 163-180), followed by the page
LoopRefresh ==
    \E fetch \in Fetches :
      \E nows \in ClockReads(Len(fetch.items)) :
        LET current_line == CurrentLine(main_estimates, current_page)
            got == get_times(requested_lines, fetch, nows, zone)
            fetched == got.value
        IN  /\ ~got.raised
            /\ ShowPage(fetched,
                        RestorePage(current_line, fetched, current_page),
                        ValidLines(fetched) = ValidLines(main_estimates))
            /\ refreshed' = TRUE
            /\ UNCHANGED <<pipeline_vars, sleep_vars>>

\* an iteration in which a refresh is due and get_times raises (line 83):
\* the handler of lines 222-226 shows "Error"; estimates, current_page and
\* last_data_refresh stay as they were
LoopRefreshRaises ==
    /\ \E fetch \in Fetches :
         \E nows \in ClockReads(Len(fetch.items)) :
           get_times(requested_lines, fetch, nows, zone).raised
    /\ outcome' = "error"
    /\ refreshed' = FALSE
    /\ all_same' = FALSE
    /\ window_same' = (outcome = "shown" \/ window_same)
    /\ UNCHANGED <<main_estimates, current_page, displayed, page_used, page_count>>
    /\ UNCHANGED <<pipeline_vars, sleep_vars>>

NextDisplay == LoopShow \/ LoopRefresh \/ LoopRefreshRaises

\* the loop never ends by itself (while True, and the handler of lines
\* 222-226 goes on): another iteration always comes
SpecDisplay == InitDisplay /\ [][NextDisplay]_vars /\ WF_vars(NextDisplay)

-----------------------------------------------------------------------------
(* Views of the state used by the properties *)

Directions == {"uptown", "downtown"}

\* the iterations that reached line 127: the normalized records
KeptAt == { i \in 1..Len(trace) : trace[i].stage = "kept" }

\* the (line, direction, tripId) of a normalized record
Ident(l) == <<l.route_name.val, l.direction.val, l.trip_id.val>>

KeptIds == { Ident(trace[i]) : i \in KeptAt }

RecordsOf(id) == { i \in KeptAt : Ident(trace[i]) = id }

EntriesOf(id) ==
    { j \in 1..Len(trips_data) : trips_data[j].key = TripKey(id[1], id[2], id[3]) }

Survivor(id) == trips_data[CHOOSE j \in EntriesOf(id) : TRUE]

\* the minutes of the survivors of one line and direction, in dict order
SurvivorMinutes(route, d) ==
    LET es == SelectSeq(trips_data, LAMBDA e : e.route = route /\ e.direction = d)
    IN  [i \in 1..Len(es) |-> es[i].minutes]

Grouped == pc \in {"estimate", "done"}

-----------------------------------------------------------------------------
(* C1 *)

\* C1: after deduplication every distinct (line, direction, tripId) has
\* exactly one entry in trips_data and contributes exactly one minutes value
\* to line_data; and when some record of the key has a valid prediction, the
\* surviving minutes are those of a predicted record of that key, whatever
\* the minutes of its scheduled-only records and whatever the arrival order.
C1_PredictedRecordSurvives ==
    /\ Len(trips_data) = Cardinality(KeptIds)
    /\ \A id \in KeptIds :
        /\ Cardinality(EntriesOf(id)) = 1
        /\ (\E i \in RecordsOf(id) : Truthy(trace[i].has_prediction))
            => \E i \in RecordsOf(id) :
                  /\ Truthy(trace[i].has_prediction)
                  /\ Survivor(id).minutes = trace[i].arrival_minutes.val
                  /\ Survivor(id).has_prediction = trace[i].has_prediction
    /\ Grouped =>
        /\ DOMAIN line_data = { id[1] : id \in KeptIds }
        /\ \A route \in DOMAIN line_data : \A d \in Directions :
            /\ line_data[route][d] = SurvivorMinutes(route, d)
            /\ Len(line_data[route][d]) =
                  Cardinality({ id \in KeptIds : id[1] = route /\ id[2] = d })

\* a predicted record of 5 minutes, then a scheduled-only record of the same
\* trip of 3 minutes: the list holds 5 alone
C1_Witness ==
    /\ pc = "done"
    /\ \E id \in KeptIds : \E i, j \in RecordsOf(id) :
        /\ i < j
        /\ Truthy(trace[i].has_prediction) /\ trace[i].arrival_minutes = PyInt(5)
        /\ ~Truthy(trace[j].has_prediction) /\ trace[j].arrival_minutes = PyInt(3)
        /\ line_data[id[1]][id[2]] = <<5>>

-----------------------------------------------------------------------------
(* C2 *)

MinimumOf(S) == CHOOSE m \in S : \A n \in S : m <= n

\* C2: when all records of one (line, direction, tripId) are predicted, or
\* none is (no predicted instant, or a predicted instant of 0), the surviving
\* minutes are the smallest minutes among them, in every arrival order.
C2_SmallestSurvives ==
    \A id \in KeptIds :
        (\A i, j \in RecordsOf(id) :
            Truthy(trace[i].has_prediction) = Truthy(trace[j].has_prediction))
        => Survivor(id).minutes =
              MinimumOf({ trace[i].arrival_minutes.val : i \in RecordsOf(id) })

-----------------------------------------------------------------------------
(* C3, C4, C5: the selector *)

IsAscending(xs) == \A i \in 1..(Len(xs) - 1) : xs[i] <= xs[i + 1]

\* the steps of the selector as the specification lists them
ImminentFilter(xs) == SelectSeq(xs, LAMBDA t : ~(t < MIN_USEFUL_MINUTES))

\* keep the first value, drop the values closer than the merge threshold to
\* it, and go on from the first value that is left
RECURSIVE ProximityMerge(_)
ProximityMerge(xs) ==
    IF xs = <<>> THEN <<>>
    ELSE <<Head(xs)>> \o
         ProximityMerge(SelectSeq(Tail(xs),
                                  LAMBDA t : Abs(t - Head(xs)) >= MERGE_THRESHOLD))

Cap(xs) == [i \in 1..(IF Len(xs) > MAX_TIMES THEN MAX_TIMES ELSE Len(xs)) |-> xs[i]]

SelectorSteps(xs) ==
    IF xs = <<>> THEN <<>>
    ELSE IF ImminentFilter(xs) = <<>>
         THEN << MinimumOf({ xs[i] : i \in 1..Len(xs) }) >>
         ELSE Cap(ProximityMerge(ImminentFilter(xs)))

\* C3: for an ascending list of minutes of one line and direction the
\* returned sequence is the result of the steps in order: imminent filter
\* (below 1), fallback to the smallest value, merge against the last kept
\* value (threshold 2), cap at 3; [3,4,9,10,11] gives [3,9,11].
C3_FilterFollowsSteps ==
    pc = "done" =>
        \A i \in 1..Len(requested_lines) : \A d \in Directions :
            LET line == requested_lines[i]
            IN  (line \in DOMAIN line_data /\ IsAscending(line_data[line][d]))
                => /\ estimates[i][d] = SelectorSteps(line_data[line][d])
                   /\ line_data[line][d] = <<3, 4, 9, 10, 11>>
                        => estimates[i][d] = <<3, 9, 11>>

C3_Witness ==
    /\ pc = "done"
    /\ "F" \in DOMAIN line_data
    /\ line_data["F"].uptown = <<3, 4, 9, 10, 11>>
    /\ estimates[1].uptown = <<3, 9, 11>>

\* C4: every uptown and downtown sequence of every returned estimate has at
\* most 3 entries, is strictly ascending, and consecutive entries differ by
\* at least 2.
C4_ShortAscendingSpaced ==
    pc = "done" =>
        \A i \in 1..Len(estimates) : \A d \in Directions :
            LET s == estimates[i][d]
            IN  /\ Len(s) <= 3
                /\ \A k \in 1..(Len(s) - 1) : s[k] < s[k + 1] /\ s[k + 1] - s[k] >= 2

\* five trains 2 minutes apart, listed latest first: sorted and cut to 3
C4_Witness ==
    /\ pc = "done"
    /\ "F" \in DOMAIN line_data
    /\ line_data["F"].downtown = <<9, 7, 5, 3, 1>>
    /\ estimates[1].downtown = <<1, 3, 5>>

\* C5: the sequence of a requested line and direction is empty exactly when
\* no record of that line and direction survived; when records exist and all
\* are below the imminent threshold it is the single smallest value; and a
\* value below the threshold never appears in a sequence longer than 1.
C5_EmptyOnlyWithoutRecords ==
    pc = "done" =>
        \A i \in 1..Len(requested_lines) : \A d \in Directions :
            LET ms == SurvivorMinutes(requested_lines[i], d)
                values == { ms[k] : k \in 1..Len(ms) }
                s == estimates[i][d]
            IN  /\ s = <<>> <=> ms = <<>>
                /\ (ms # <<>> /\ \A m \in values : m < MIN_USEFUL_MINUTES)
                    => s = << MinimumOf(values) >>
                /\ Len(s) > 1 => \A k \in 1..Len(s) : s[k] >= MIN_USEFUL_MINUTES

\* two trains at the platform (0 minutes) and nothing else: [0]
C5_Witness ==
    /\ pc = "done"
    /\ SurvivorMinutes("F", "uptown") = <<0, 0>>
    /\ estimates[1].uptown = <<0>>
    /\ estimates[1].downtown = <<>>

-----------------------------------------------------------------------------
(* C6 *)

\* C6: the result has exactly one estimate per element of the requested line
\* list, in the same order, a line requested twice included; a requested line
\* without a matching record has two empty sequences.
C6_OnePerRequestedLine ==
    pc = "done" =>
        /\ Len(estimates) = Len(requested_lines)
        /\ \A i \in 1..Len(requested_lines) :
            /\ estimates[i].line = requested_lines[i]
            /\ (\A k \in KeptAt : trace[k].route_name.val # requested_lines[i])
                => estimates[i].uptown = <<>> /\ estimates[i].downtown = <<>>

\* Q, F, Q requested and only a Q train in the feed
C6_Witness ==
    /\ pc = "done"
    /\ requested_lines = <<"Q", "F", "Q">>
    /\ estimates[1].line = "Q" /\ estimates[1].uptown # <<>>
    /\ estimates[2] = [line |-> "F", uptown |-> <<>>, downtown |-> <<>>]
    /\ estimates[3] = estimates[1]

-----------------------------------------------------------------------------
(* C7 *)

Missing(v) == v \in {Absent, PyNone}

\* a trip id absent or empty, both timestamps absent, or a headsign absent or
\* without any of the four direction words
Malformed(item) ==
    \/ Missing(item.tripId) \/ item.tripId = PyStr("")
    \/ Missing(item.predictedArrivalTime) /\ Missing(item.scheduledArrivalTime)
    \/ Missing(item.tripHeadsign)
    \/ item.tripHeadsign.tag = "str" /\ GetDirection(item) = PyNone

\* the instant at which iteration i read the clock, if it did
NowAt(i) == IF trace[i].now = PyNone THEN Now0 ELSE trace[i].now.val

\* how _parse_response ends on arrivals without its malformed records
ResultWithoutMalformed ==
    LET wellformed == { i \in 1..Len(arrivals) : ~Malformed(arrivals[i]) }
        RECURSIVE Pick(_)
        Pick(i) == IF i > Len(arrivals) THEN <<>>
                   ELSE (IF i \in wellformed THEN <<i>> ELSE <<>>) \o Pick(i + 1)
        at == Pick(1)
        items == [k \in 1..Len(at) |-> arrivals[at[k]]]
        nows == [k \in 1..Len(at) |-> NowAt(at[k])]
    IN  ParseResponse(items, nows, requested_lines, zone)

\* C7: a malformed record never aborts the call: _parse_response returns
\* without raising, and what it returns is the result for the same records
\* with the malformed ones removed.
C7_MalformedNeverAborts ==
    /\ pc # "raised"
    /\ pc = "done" => Return(estimates) = ResultWithoutMalformed

\* the second half of C7 alone: what is returned, when the call returns
C7_ReturnIgnoresMalformed == pc = "done" => Return(estimates) = ResultWithoutMalformed

-----------------------------------------------------------------------------
(* C8 *)

\* the iterations that computed minutes
TimedAt == { i \in 1..Len(trace) : trace[i].arrival_minutes # PyNone }

\* C8: within one invocation two records with the same arrival instant get
\* the same minutesFromNow, however much time passes while the records are
\* processed.
C8_OneNowPerInvocation ==
    \A i, j \in TimedAt :
        trace[i].arrival_ms = trace[j].arrival_ms
            => trace[i].arrival_minutes = trace[j].arrival_minutes

-----------------------------------------------------------------------------
(* C9 *)

\* C9: _get_arrival_minutes returns max(0, floor(seconds from now to the
\* arrival / 60)): never negative, 0 for an arrival in the past, the floor of
\* the difference in minutes for an arrival in the future.
C9_ClampedFloor ==
    \A i \in TimedAt :
        LET seconds == (trace[i].arrival_ms.val - trace[i].now.val) \div 1000
            floor == seconds \div 60
            m == trace[i].arrival_minutes.val
        IN  /\ m = (IF floor > 0 THEN floor ELSE 0)
            /\ m >= 0
            /\ seconds < 0 => m = 0
            /\ seconds >= 0 => m = floor

\* C9 where the UTC offset of the host is the same at now and at the arrival
C9_ClampedFloorAtOneOffset ==
    (zone.shift = 0) => C9_ClampedFloor

\* an arrival 90 s in the past (truncation gives -1, clamped to 0) and one
\* 150 s ahead (2 minutes) in one run
C9_Witness ==
    /\ \E i \in TimedAt :
        /\ trace[i].arrival_ms.val - trace[i].now.val = -90000
        /\ trace[i].arrival_minutes = PyInt(0)
    /\ \E i \in TimedAt :
        /\ trace[i].arrival_ms.val - trace[i].now.val = 150000
        /\ trace[i].arrival_minutes = PyInt(2)

-----------------------------------------------------------------------------
(* C10 *)

\* the iterations that called _get_arrival_minutes
ClockedAt == { i \in 1..Len(trace) : trace[i].stage \in {"time", "trip", "kept"} }

\* an instant is usable when the field holds a number other than 0; the feed
\* and the code (lines 218-231) use 0 for "no instant"
Usable(v) == v.tag = "int" /\ v.val # 0

\* C10: the instant used is the predicted one when it is present and greater
\* than zero and otherwise the scheduled one; the record is discarded for its
\* times only when neither instant is there to use; and hasPrediction is true
\* exactly when the predicted instant was the one used.
C10_PredictedElseScheduled ==
    \A i \in ClockedAt :
        LET predicted == arrivals[i].predictedArrivalTime
            scheduled == arrivals[i].scheduledArrivalTime
            valid == predicted.tag = "int" /\ predicted.val > 0
            l == trace[i]
        IN  /\ valid => l.arrival_ms = predicted
            /\ (~valid /\ Usable(scheduled)) => l.arrival_ms = scheduled
            /\ l.stage = "time" <=> (~valid /\ ~Usable(scheduled))
            /\ l.stage = "kept" =>
                /\ Truthy(l.has_prediction) <=> (valid /\ l.arrival_ms = predicted)
                /\ \A j \in EntriesOf(Ident(l)) :
                      Truthy(trips_data[j].has_prediction) =>
                          \E k \in RecordsOf(Ident(l)) :
                              arrivals[k].predictedArrivalTime = trace[k].arrival_ms

\* a record with predicted 0 read at its scheduled instant, and one with both
\* instants read at the predicted one
C10_Witness ==
    /\ \E i \in KeptAt :
        /\ arrivals[i].predictedArrivalTime = PyInt(0)
        /\ trace[i].arrival_ms = arrivals[i].scheduledArrivalTime
        /\ ~Truthy(trace[i].has_prediction)
    /\ \E i \in KeptAt :
        /\ Usable(arrivals[i].scheduledArrivalTime)
        /\ trace[i].arrival_ms = arrivals[i].predictedArrivalTime
        /\ trace[i].has_prediction = PyBool(TRUE)

-----------------------------------------------------------------------------
(* C11 *)

\* character c is the letter t (lower case) in either case
SameLetter(c, t) ==
    c = t \/ \E n \in 1..26 : LowerCase[n] = t /\ UpperCase[n] = c

\* the text h holds the token tok somewhere, compared letter by letter
\* without regard to case
HasToken(h, tok) ==
    \E i \in 1..(Len(h) - Len(tok) + 1) :
        \A k \in 1..Len(tok) : SameLetter(h[i + k - 1], tok[k])

HasUptownToken(h) == HasToken(h, Uptown) \/ HasToken(h, North)
HasDowntownToken(h) == HasToken(h, Downtown) \/ HasToken(h, South)

\* the iterations that classified a record: the record is of a requested
\* line and its headsign is a text (an absent headsign is the empty text)
ClassifiedAt ==
    { i \in 1..Len(trace) :
        trace[i].stage # "line" /\ arrivals[i].tripHeadsign # PyNone }

HeadsignText(item) == DictGet(item, "tripHeadsign", PyStr(<<>>)).val

\* the values of the sequences of direction d come from records classified d
FromRecordsOf(d, Is(_)) ==
    Grouped =>
        \A route \in DOMAIN line_data :
            Len(line_data[route][d]) <=
                Cardinality({ i \in ClassifiedAt :
                                /\ arrivals[i].routeShortName = PyStr(route)
                                /\ Is(HeadsignText(arrivals[i])) })

\* C11 as stated: a headsign that holds "uptown" or "north" (in any case) is
\* classified uptown, one that holds "downtown" or "south" is classified
\* downtown, and one that holds none of the four is classified unknown and
\* contributes to no sequence.
C11_ClassifiedByToken ==
    \A i \in ClassifiedAt :
        LET h == HeadsignText(arrivals[i])
        IN  /\ HasUptownToken(h) => trace[i].direction = PyStr("uptown")
            /\ HasDowntownToken(h) => trace[i].direction = PyStr("downtown")
            /\ (~HasUptownToken(h) /\ ~HasDowntownToken(h))
                => trace[i].direction = PyNone /\ i \notin KeptAt

IsUptownText(h) == HasUptownToken(h)
IsDowntownText(h) == HasDowntownToken(h) /\ ~HasUptownToken(h)

\* C11 amended: a headsign that holds "uptown" or "north" (in any case) is
\* classified uptown; one that holds "downtown" or "south" and neither
\* "uptown" nor "north" is classified downtown; one that holds none of the
\* four is classified unknown and contributes to no sequence: the values of
\* the uptown (downtown) sequences come from records classified uptown
\* (downtown) only.
C11_UptownTokensFirst ==
    /\ \A i \in ClassifiedAt :
        LET h == HeadsignText(arrivals[i])
        IN  /\ IsUptownText(h) => trace[i].direction = PyStr("uptown")
            /\ IsDowntownText(h) => trace[i].direction = PyStr("downtown")
            /\ (~IsUptownText(h) /\ ~IsDowntownText(h))
                => /\ trace[i].direction = PyNone
                   /\ trace[i].stage = "direction"
                   /\ i \notin KeptAt
    /\ FromRecordsOf("uptown", IsUptownText)
    /\ FromRecordsOf("downtown", IsDowntownText)

\* "south UPTOWN" at the uptown platform gives an uptown time, and "Up town"
\* in the same feed gives nothing
C11_Witness ==
    /\ pc = "done"
    /\ \E i \in KeptAt :
        /\ arrivals[i].tripHeadsign = HeadSouthUptown
        /\ trace[i].direction = PyStr("uptown")
    /\ \E i \in ClassifiedAt :
        /\ arrivals[i].tripHeadsign = HeadUpTown
        /\ trace[i].stage = "direction"
    /\ estimates[1].uptown = <<3>>
    /\ estimates[1].downtown = <<>>

-----------------------------------------------------------------------------
(* C12 *)

\* the first record of every (line, direction, tripId), in feed order
FirstRecords ==
    SelectSeq([i \in 1..Len(trace) |-> i],
              LAMBDA i : i \in KeptAt /\ \A j \in RecordsOf(Ident(trace[i])) : i <= j)

\* the deduplicator's output as records: one per (line, direction, tripId),
\* with the minutes and hasPrediction that survived, in the order of the dict
SurvivorRecords ==
    [k \in 1..Len(FirstRecords) |->
        LET l == trace[FirstRecords[k]]
            survivor == Survivor(Ident(l))
        IN  Locals("kept", l.route_name, l.direction, PyNone, PyNone,
                   PyInt(survivor.minutes), l.trip_id, survivor.has_prediction)]

\* C12: the deduplication rule applied to its own survivors (one per line,
\* direction and tripId, with their minutes and hasPrediction) gives the
\* same survivors with the same minutes and hasPrediction, one per record
\* fed in, and applying it to them on top of the first result changes
\* nothing.
C12_DedupIdempotent ==
    LET again == StoreAll(SurvivorRecords, <<>>)
    IN  /\ again = trips_data
        /\ Len(again) = Len(SurvivorRecords)
        /\ Len(SurvivorRecords) = Cardinality(KeptIds)
        /\ StoreAll(SurvivorRecords, trips_data) = trips_data

\* two records of one trip of which the second replaced the first, and the
\* survivor fed through again
C12_Witness ==
    /\ pc = "done"
    /\ \E id \in KeptIds : \E i, j \in RecordsOf(id) :
        /\ i < j
        /\ trace[i].arrival_minutes # trace[j].arrival_minutes
        /\ Survivor(id).minutes = trace[j].arrival_minutes.val
        /\ Len(SurvivorRecords) = 1
        /\ SurvivorRecords[1].arrival_minutes = trace[j].arrival_minutes
        /\ StoreAll(SurvivorRecords, <<>>) = trips_data

-----------------------------------------------------------------------------
(* C13 *)

\* h lies in the half-open interval [a, b) of the 24-hour clock, which runs
\* from a forward to b and wraps after 23: h is fewer hours after a than b is
InCyclicInterval(h, a, b) == (h - a + 24) % 24 < (b - a + 24) % 24

\* C13: is_sleep_time_test(hour, sleep_start_hour, wake_hour) is true
\* exactly when hour lies in the cyclic half-open interval
\* [sleep_start_hour, wake_hour), for all hours, starts and wakes in 0..23
\* with start different from wake; for start 12 and wake 6 it is true for
\* the hours 12..23 and 0..5 and false for 6..11.
C13_SleepIsCyclicInterval ==
    sleeping # PyNone =>
        /\ sleep_start_hour # wake_hour
            => sleeping = PyBool(InCyclicInterval(current_hour, sleep_start_hour,
                                                  wake_hour))
        /\ (sleep_start_hour = 12 /\ wake_hour = 6)
            => /\ current_hour \in (12..23) \cup (0..5) => sleeping = PyBool(TRUE)
               /\ current_hour \in 6..11 => sleeping = PyBool(FALSE)

\* 5 o'clock under the schedule 12 to 6: asleep, by the overnight branch
C13_Witness ==
    /\ current_hour = 5
    /\ sleep_start_hour = 12
    /\ wake_hour = 6
    /\ sleeping = PyBool(TRUE)

-----------------------------------------------------------------------------
(* C14 *)

\* the deduplicated arrivals of a line and direction, as a set of minutes
ArrivalsOf(line, d) ==
    LET ms == SurvivorMinutes(line, d) IN { ms[k] : k \in 1..Len(ms) }

\* what display_estimate shows for direction d of the i-th estimate
ShownFor(i, d) == get_next_train(estimates[i][d])

\* C14: the minutes display_estimate shows for a direction are the smallest
\* deduplicated arrival of that line and direction that is at least 2
\* minutes away when there is one, and otherwise the smallest deduplicated
\* arrival: the filter, the merge and the cap never hide the next train
\* that is at least 2 minutes away.
C14_ShowsNextTrainFromTwo ==
    pc = "done" =>
        \A i \in 1..Len(requested_lines) : \A d \in Directions :
            LET all == ArrivalsOf(requested_lines[i], d)
                later == { m \in all : m >= 2 }
            IN  all # {} =>
                    ShownFor(i, d) =
                        PyInt(MinimumOf(IF later # {} THEN later ELSE all))

\* what is shown instead: C14 fails exactly when a train 1 minute away is
\* there together with one 2 minutes away (the merge drops the 2 as too
\* close to the 1) or, nothing being 2 minutes away or more, together with
\* one 0 minutes away (the filter drops the 0)
C14_ShownBehindOne ==
    pc = "done" =>
        \A i \in 1..Len(requested_lines) : \A d \in Directions :
            LET all == ArrivalsOf(requested_lines[i], d)
                later == { m \in all : m >= 2 }
                far == { m \in all : m >= 3 }
            IN  all # {} =>
                    IF 1 \in all
                    THEN ShownFor(i, d) = PyInt(IF far # {} THEN MinimumOf(far) ELSE 1)
                    ELSE ShownFor(i, d) =
                            PyInt(MinimumOf(IF later # {} THEN later ELSE all))

-----------------------------------------------------------------------------
(* C15 *)

Distinct(xs) == \A i, j \in 1..Len(xs) : xs[i] = xs[j] => i = j

Range(xs) == { xs[i] : i \in 1..Len(xs) }

\* the line after line x in the cycle xs
SuccessorIn(x, xs) ==
    LET i == CHOOSE k \in 1..Len(xs) : xs[k] = x
    IN  xs[(i % Len(xs)) + 1]

\* the index used at line 191 is an index of valid_estimates
C15_PageInRange ==
    outcome = "shown" =>
        /\ page_count = Len(ValidEstimates(main_estimates))
        /\ 0 <= page_used /\ page_used < page_count
        /\ displayed = PyStr(ValidLines(main_estimates)[page_used + 1])
        /\ 0 <= current_page /\ current_page < page_count

\* a display step, no refresh since the display before it having changed
\* the lines with data, shows the cyclic successor of the line shown before
C15_NextInCycle ==
    LET lines == ValidLines(main_estimates')
    IN  (outcome' = "shown" /\ displayed # PyNone /\ window_same' /\ Distinct(lines))
        => /\ displayed.val \in Range(lines)
           /\ displayed' = PyStr(SuccessorIn(displayed.val, lines))
           /\ Len(lines) > 1 => displayed' # displayed

\* while every refresh returns the same distinct lines with data, each of
\* them is shown again and again
C15_EveryLineShown ==
    \A l \in {"F", "R", "Q"} :
        [](/\ all_same
           /\ Distinct(ValidLines(main_estimates))
           /\ l \in Range(ValidLines(main_estimates)))
        => []<>(outcome = "shown" /\ displayed = PyStr(l))

\* C15: in the loop of main the page index used to pick the displayed
\* estimate is always within [0, number of valid estimates); and as long as
\* the refreshes return the same distinct lines with data, each display
\* step shows the cyclic successor of the line shown before (no line is
\* skipped or shown twice in a row by a refresh) and every valid line is
\* displayed eventually.
C15_RoundRobinPages ==
    /\ []C15_PageInRange
    /\ [][C15_NextInCycle]_vars
    /\ C15_EveryLineShown

\* F, R and Q all have trains; R is shown as the second page by an iteration
\* that refreshed the data first, every refresh having returned the same
C15_Witness ==
    /\ ValidLines(main_estimates) = <<"F", "R", "Q">>
    /\ outcome = "shown"
    /\ refreshed
    /\ all_same
    /\ window_same
    /\ displayed = PyStr("R")
    /\ page_used = 1
    /\ current_page = 2

====
